---- MODULE Spec2Model ----
(***************************************************************************)
(* Alternate-screen switching of crossterm.                                *)
(*                                                                         *)
(*   src/src/common/screen/alternate.rs                                    *)
(*       AlternateScreen::new / to_alternate_screen / to_main_screen / Drop *)
(*   src/src/crossterm_state/commands/shared_commands.rs                   *)
(*       ToAlternateScreenBufferCommand::execute / undo                    *)
(*                                                                         *)
(* The terminal is the shared external resource: its active buffer and its *)
(* line discipline.  Every AlternateScreen value is a handle; the handlers *)
(* are the actions.  Whether a write to standard output succeeds, and      *)
(* whether the line discipline can be switched, are inputs of the handlers.*)
(* buffer is the buffer selected by the output written so far: what the    *)
(* terminal shows once that output has reached it.                         *)
(***************************************************************************)
EXTENDS Naturals, Sequences, FiniteSets

\* ------------------------------------------------------------------ bounds
\* Number of AlternateScreen values a run creates.
MaxHandles == 2
\* Number of explicit to_main_screen calls made on one handle.
MaxLeaves == 2
\* Number of calls (new, to_alternate_screen, to_main_screen, drop) in a run.
MaxCalls == 4

Handles == 1..MaxHandles

VARIABLES
    windows,  \* the build: cfg(target_os = "windows") or not; fixed in a run
    buffer,   \* the terminal's active buffer: "Main" or "Alternate"
    raw,      \* the terminal's line discipline: TRUE = raw, FALSE = cooked
    handle,   \* per AlternateScreen value: its lifecycle and its call counts
    nested,   \* two AlternateScreen values have been alive at once
    last,     \* the call that was made last: inputs, result, bytes written
    prev      \* the call made before it

vars == <<windows, buffer, raw, handle, nested, last, prev>>

\* ------------------------------------------------- escape-sequence backend
\* csi!(..) prefixes the Control Sequence Introducer, ESC [ .
csi(s) == <<27, 91>> \o s

\* "?1049h"
ENTER_SEQ == <<63, 49, 48, 52, 57, 104>>
\* "?1049l"
LEAVE_SEQ == <<63, 49, 48, 52, 57, 108>>

\* execute with the sequence of another private mode (1047: no cursor save).
execute_writing_1047(writeOk) ==
    [ok |-> writeOk,
     bytes |-> IF writeOk THEN csi(<<63, 49, 48, 52, 55, 104>>) ELSE <<>>,
     writes |-> 1, flushed |-> FALSE]

\* execute that writes the sequence of undo.
execute_writing_leave(writeOk) ==
    [ok |-> writeOk, bytes |-> IF writeOk THEN csi(LEAVE_SEQ) ELSE <<>>,
     writes |-> 1, flushed |-> FALSE]

\* execute that maps both arms of the match to true.
execute_always_true(writeOk) ==
    [ok |-> TRUE, bytes |-> IF writeOk THEN csi(ENTER_SEQ) ELSE <<>>,
     writes |-> 1, flushed |-> FALSE]

\* execute: one write! of csi!("?1049h") to io::stdout(); Ok(_) => true,
\* Err(_) => false.  A write that fails is taken to deliver nothing.
\*   writes  : the number of write! calls made
\*   flushed : io::stdout() was flushed after the write
execute(writeOk) ==
    [ok |-> writeOk, bytes |-> IF writeOk THEN csi(ENTER_SEQ) ELSE <<>>,
     writes |-> 1, flushed |-> FALSE]

\* undo that writes the sequence of execute.
undo_writing_enter(writeOk) ==
    [ok |-> writeOk, bytes |-> IF writeOk THEN csi(ENTER_SEQ) ELSE <<>>,
     writes |-> 1, flushed |-> FALSE]

\* undo that returns true without writing anything.
undo_without_write(writeOk) ==
    [ok |-> TRUE, bytes |-> <<>>, writes |-> 0, flushed |-> FALSE]

\* undo: one write! of csi!("?1049l") to io::stdout().
undo(writeOk) ==
    [ok |-> writeOk, bytes |-> IF writeOk THEN csi(LEAVE_SEQ) ELSE <<>>,
     writes |-> 1, flushed |-> FALSE]

\* io::stdout() is line buffered: bytes written stay in its buffer until a
\* newline (10) is written or the stream is flushed.  The number of the
\* written bytes that are still in the buffer when the writer returns.
LastNewline(bytes) ==
    IF \E i \in 1..Len(bytes) : bytes[i] = 10
    THEN CHOOSE i \in 1..Len(bytes) :
            bytes[i] = 10 /\ \A j \in (i + 1)..Len(bytes) : bytes[j] # 10
    ELSE 0

stdout_pending(bytes, flushed) ==
    IF flushed THEN 0 ELSE Len(bytes) - LastNewline(bytes)

\* ---------------------------------------------------- backend commands
\* functions::get_module(winapi command, ansi command): the escape-sequence
\* command when the console interprets escape sequences, else the native one.
get_module(vtOn) == IF vtOn THEN "ansi" ELSE "winapi"

\* command.enable / command.disable: the command's two directions seen through
\* the io::Result interface alternate.rs calls.  The escape-sequence command
\* is execute / undo; the native command switches the console's active screen
\* buffer by a system call (callOk: the write or the system call succeeds).
\*   native   : the console buffer the native command activated, or "none"
\*   returned : what execute / undo returned
enable(command, callOk) ==
    IF command = "ansi"
    THEN LET r == execute(callOk)
         IN  [res |-> IF r.ok THEN "Ok" ELSE "Err", bytes |-> r.bytes,
              native |-> "none", backend |-> "ansi", writes |-> r.writes,
              returned |-> r.ok,
              unflushed |-> stdout_pending(r.bytes, r.flushed)]
    ELSE [res |-> IF callOk THEN "Ok" ELSE "Err", bytes |-> <<>>,
          native |-> IF callOk THEN "Alternate" ELSE "none",
          backend |-> "winapi", writes |-> 0, returned |-> callOk,
          unflushed |-> 0]

disable(command, callOk) ==
    IF command = "ansi"
    THEN LET r == undo(callOk)
         IN  [res |-> IF r.ok THEN "Ok" ELSE "Err", bytes |-> r.bytes,
              native |-> "none", backend |-> "ansi", writes |-> r.writes,
              returned |-> r.ok,
              unflushed |-> stdout_pending(r.bytes, r.flushed)]
    ELSE [res |-> IF callOk THEN "Ok" ELSE "Err", bytes |-> <<>>,
          native |-> IF callOk THEN "Main" ELSE "none",
          backend |-> "winapi", writes |-> 0, returned |-> callOk,
          unflushed |-> 0]

\* RawScreen::into_raw_mode: switches the line discipline to raw, or fails and
\* leaves it alone.
into_raw_mode(rawOk) == IF rawOk THEN "Ok" ELSE "Err"

\* The terminal's interpretation of the bytes one call wrote: private mode
\* 1049 set selects the alternate buffer, reset selects the main buffer.
Terminal(buf, bytes) ==
    IF bytes = <<27, 91, 63, 49, 48, 52, 57, 104>> THEN "Alternate"
    ELSE IF bytes = <<27, 91, 63, 49, 48, 52, 57, 108>> THEN "Main"
    ELSE buf

\* The console after a native command: the buffer it activated, if any.
Console(buf, native) == IF native = "none" THEN buf ELSE native

\* ------------------------------------------------------- AlternateScreen
\* new that builds the escape-sequence command again instead of keeping the
\* command it is given.
new_with_shared_command(command) ==
    [command |-> "ansi"]

\* AlternateScreen::new(command, screen): AlternateScreen { command, screen }
new(command) ==
    [command |-> command]

\* What to_alternate_screen returns and did, from the command it resolved,
\* the outcome e of command.enable and the rest of the run of the body.
\*   made     : an AlternateScreen value is returned
\*   stored   : the command that value holds
\*   appliedBy: the backend that performed command.enable
\*   calls    : the collaborator calls made, in order
\*   rawSet   : RawScreen::into_raw_mode succeeded
Entry(command, e, result, calls, rawSet) ==
    [result |-> result, made |-> result = "Ok",
     stored |-> IF result = "Ok" THEN new(command).command ELSE "none",
     appliedBy |-> e.backend, bytes |-> e.bytes, native |-> e.native,
     writes |-> e.writes, returned |-> e.returned, unflushed |-> e.unflushed,
     calls |-> calls, rawSet |-> rawSet]

\* to_alternate_screen without the ? after command.enable: the error of the
\* buffer switch is dropped and the function goes on.
to_alternate_screen_ignoring_enable(target_windows, vtOn, raw_mode, writeOk, rawOk) ==
    LET command == IF target_windows THEN get_module(vtOn) ELSE "ansi"
        e == enable(command, writeOk)
    IN  IF raw_mode
        THEN IF into_raw_mode(rawOk) = "Err"
             THEN Entry(command, e, "Err", <<"enable", "into_raw_mode">>, FALSE)
             ELSE Entry(command, e, "Ok", <<"enable", "into_raw_mode">>, TRUE)
        ELSE Entry(command, e, "Ok", <<"enable">>, FALSE)

\* to_alternate_screen that enables raw mode before it switches the buffer.
to_alternate_screen_raw_first(target_windows, vtOn, raw_mode, writeOk, rawOk) ==
    LET command == IF target_windows THEN get_module(vtOn) ELSE "ansi"
        e == enable(command, writeOk)
        none == [e EXCEPT !.bytes = <<>>, !.native = "none", !.writes = 0,
                          !.unflushed = 0]
    IN  IF raw_mode /\ into_raw_mode(rawOk) = "Err"
        THEN Entry(command, none, "Err", <<"into_raw_mode">>, FALSE)
        ELSE IF e.res = "Err"
        THEN Entry(command, e, "Err",
                   IF raw_mode THEN <<"into_raw_mode", "enable">>
                   ELSE <<"enable">>, raw_mode)
        ELSE Entry(command, e, "Ok",
                   IF raw_mode THEN <<"into_raw_mode", "enable">>
                   ELSE <<"enable">>, raw_mode)

\* to_alternate_screen that enables raw mode whatever raw_mode says.
to_alternate_screen_always_raw(target_windows, vtOn, raw_mode, writeOk, rawOk) ==
    LET command == IF target_windows THEN get_module(vtOn) ELSE "ansi"
        e == enable(command, writeOk)
    IN  IF e.res = "Err"
        THEN Entry(command, e, "Err", <<"enable">>, FALSE)
        ELSE IF into_raw_mode(rawOk) = "Err"
        THEN Entry(command, e, "Err", <<"enable", "into_raw_mode">>, FALSE)
        ELSE Entry(command, e, "Ok", <<"enable", "into_raw_mode">>, TRUE)

\* to_alternate_screen(stdout, raw_mode): the command is resolved (by
\* get_module on windows, the escape-sequence command elsewhere), enabled,
\* raw mode is enabled on request, and the command goes into the value.
to_alternate_screen(target_windows, vtOn, raw_mode, writeOk, rawOk) ==
    LET command == IF target_windows THEN get_module(vtOn) ELSE "ansi"
        e == enable(command, writeOk)
    IN  IF e.res = "Err"
        THEN Entry(command, e, "Err", <<"enable">>, FALSE)
        ELSE IF raw_mode
        THEN IF into_raw_mode(rawOk) = "Err"
             THEN Entry(command, e, "Err", <<"enable", "into_raw_mode">>, FALSE)
             ELSE Entry(command, e, "Ok", <<"enable", "into_raw_mode">>, TRUE)
        ELSE Entry(command, e, "Ok", <<"enable">>, FALSE)

\* to_main_screen that returns Ok(()) without calling command.disable.
to_main_screen_without_disable(command, writeOk) ==
    [result |-> "Ok", bytes |-> <<>>, native |-> "none", reverts |-> 0,
     backend |-> "none", writes |-> 0, returned |-> TRUE, unflushed |-> 0]

\* to_main_screen(&self): self.command.disable(..)?; Ok(())
to_main_screen(command, writeOk) ==
    LET d == disable(command, writeOk)
    IN  [result |-> d.res, bytes |-> d.bytes, native |-> d.native,
         reverts |-> 1, backend |-> d.backend, writes |-> d.writes,
         returned |-> d.returned, unflushed |-> d.unflushed]

\* drop with an empty body.
drop_without_revert(command, leaves, writeOk) ==
    [to_main_screen_without_disable(command, writeOk)
        EXCEPT !.result = "Unit"]

\* drop that reverts only when to_main_screen was not called on the handle.
drop_unless_left(command, leaves, writeOk) ==
    IF leaves > 0
    THEN [to_main_screen_without_disable(command, writeOk)
            EXCEPT !.result = "Unit"]
    ELSE [to_main_screen(command, writeOk) EXCEPT !.result = "Unit"]

\* drop that unwraps the result of to_main_screen: a failed revert panics.
drop_unwrapping(command, leaves, writeOk) ==
    LET r == to_main_screen(command, writeOk)
    IN  [r EXCEPT !.result = IF r.result = "Ok" THEN "Unit" ELSE "Panic"]

\* Drop::drop(&mut self): self.to_main_screen(); the result is discarded.
\* command is self.command; leaves is the number of to_main_screen calls
\* made on self before, which the body does not read.
drop(command, leaves, writeOk) ==
    [to_main_screen(command, writeOk) EXCEPT !.result = "Unit"]

\* ------------------------------------------------------------------ state
NoHandle ==
    [st |-> "none", entered |-> FALSE, raw_mode |-> FALSE,
     disables |-> 0, leaves |-> 0, command |-> "none", appliedBy |-> "none",
     revertFailed |-> FALSE]

NoCall ==
    [op |-> "init", h |-> 0, raw_mode |-> FALSE, writeOk |-> TRUE,
     result |-> "Unit", emitted |-> <<>>, rawTried |-> FALSE, reverts |-> 0,
     preBuffer |-> "Main", preRaw |-> FALSE,
     backend |-> "none", calls |-> <<>>, writes |-> 0, returned |-> TRUE,
     unflushed |-> 0]

Init ==
    /\ windows \in BOOLEAN
    /\ buffer = "Main"
    /\ raw = FALSE
    /\ handle = [h \in Handles |-> NoHandle]
    /\ nested = FALSE
    /\ last = NoCall
    /\ prev = NoCall

\* The calls made so far: every call creates a handle, is a to_main_screen
\* on one, or drops one.
RECURSIVE CallsUpTo(_)
CallsUpTo(n) ==
    IF n = 0 THEN 0
    ELSE CallsUpTo(n - 1)
         + (IF handle[n].st = "none" THEN 0 ELSE 1)
         + handle[n].leaves
         + (IF handle[n].st = "dropped" THEN 1 ELSE 0)

Calls == CallsUpTo(MaxHandles)

\* Handles are numbered in the order they are created.
NextToCreate(h) ==
    /\ Calls < MaxCalls
    /\ handle[h].st = "none"
    /\ \A g \in Handles : g < h => handle[g].st # "none"

OtherAlive(h) == \E g \in Handles : g # h /\ handle[g].st = "alive"

\* ---------------------------------------------------------------- actions
\* AlternateScreen::new(command, screen): a handle for which no enter ran.
\* The native command exists in a windows build only.
New(h, command) ==
    /\ NextToCreate(h)
    /\ command = "winapi" => windows
    /\ handle' = [handle EXCEPT ![h] =
           [NoHandle EXCEPT !.st = "alive", !.command = new(command).command]]
    /\ nested' = (nested \/ OtherAlive(h))
    /\ prev' = last
    /\ last' = [NoCall EXCEPT !.op = "new", !.h = h,
                              !.preBuffer = buffer, !.preRaw = raw]
    /\ UNCHANGED <<windows, buffer, raw>>

\* vtOn: the console interprets escape sequences when get_module probes it;
\* off windows nothing is probed.
ToAlternateScreen(h, vtOn, raw_mode, writeOk, rawOk) ==
    /\ NextToCreate(h)
    /\ ~windows => vtOn
    /\ LET r == to_alternate_screen(windows, vtOn, raw_mode, writeOk, rawOk)
       IN  /\ buffer' = Console(Terminal(buffer, r.bytes), r.native)
           /\ raw' = IF r.rawSet THEN TRUE ELSE raw
           /\ handle' = [handle EXCEPT ![h] =
                  [st |-> IF r.made THEN "alive" ELSE "failed",
                   entered |-> r.made, raw_mode |-> raw_mode,
                   disables |-> 0, leaves |-> 0, command |-> r.stored,
                   appliedBy |-> r.appliedBy, revertFailed |-> FALSE]]
           /\ nested' = (nested \/ (r.made /\ OtherAlive(h)))
           /\ prev' = last
           /\ last' = [op |-> "to_alternate_screen", h |-> h,
                       raw_mode |-> raw_mode, writeOk |-> writeOk,
                       result |-> r.result, emitted |-> r.bytes,
                       rawTried |-> (\E i \in 1..Len(r.calls) :
                                        r.calls[i] = "into_raw_mode"),
                       reverts |-> 0,
                       preBuffer |-> buffer, preRaw |-> raw,
                       backend |-> r.appliedBy, calls |-> r.calls,
                       writes |-> r.writes, returned |-> r.returned,
                       unflushed |-> r.unflushed]
    /\ UNCHANGED windows

ToMainScreen(h, writeOk) ==
    /\ Calls < MaxCalls
    /\ handle[h].st = "alive"
    /\ handle[h].leaves < MaxLeaves
    /\ LET r == to_main_screen(handle[h].command, writeOk)
       IN  /\ buffer' = Console(Terminal(buffer, r.bytes), r.native)
           /\ handle' = [handle EXCEPT
                  ![h].disables = @ + r.reverts, ![h].leaves = @ + 1,
                  ![h].revertFailed = @ \/ r.result = "Err"]
           /\ prev' = last
           /\ last' = [op |-> "to_main_screen", h |-> h,
                       raw_mode |-> handle[h].raw_mode, writeOk |-> writeOk,
                       result |-> r.result, emitted |-> r.bytes,
                       rawTried |-> FALSE, reverts |-> r.reverts,
                       preBuffer |-> buffer, preRaw |-> raw,
                       backend |-> r.backend, calls |-> <<"disable">>,
                       writes |-> r.writes, returned |-> r.returned,
                       unflushed |-> r.unflushed]
    /\ UNCHANGED <<windows, raw, nested>>

Drop(h, writeOk) ==
    /\ Calls < MaxCalls
    /\ handle[h].st = "alive"
    /\ LET r == drop(handle[h].command, handle[h].leaves, writeOk)
       IN  /\ buffer' = Console(Terminal(buffer, r.bytes), r.native)
           /\ handle' = [handle EXCEPT
                  ![h].disables = @ + r.reverts,
                  ![h].st = IF r.result = "Unit" THEN "dropped" ELSE "alive",
                  ![h].revertFailed = @ \/ ~r.returned]
           /\ prev' = last
           /\ last' = [op |-> "drop", h |-> h,
                       raw_mode |-> handle[h].raw_mode, writeOk |-> writeOk,
                       result |-> r.result, emitted |-> r.bytes,
                       rawTried |-> FALSE, reverts |-> r.reverts,
                       preBuffer |-> buffer, preRaw |-> raw,
                       backend |-> r.backend, calls |-> <<"disable">>,
                       writes |-> r.writes, returned |-> r.returned,
                       unflushed |-> r.unflushed]
    /\ UNCHANGED <<windows, raw, nested>>

Next ==
    \/ \E h \in Handles, command \in {"ansi", "winapi"} : New(h, command)
    \/ \E h \in Handles, vtOn \in BOOLEAN, raw_mode \in BOOLEAN,
          writeOk \in BOOLEAN, rawOk \in BOOLEAN :
             ToAlternateScreen(h, vtOn, raw_mode, writeOk, rawOk)
    \/ \E h \in Handles, writeOk \in BOOLEAN : ToMainScreen(h, writeOk)
    \/ \E h \in Handles, writeOk \in BOOLEAN : Drop(h, writeOk)

Spec == Init /\ [][Next]_vars

TypeOK ==
    /\ windows \in BOOLEAN
    /\ buffer \in {"Main", "Alternate"}
    /\ raw \in BOOLEAN
    /\ nested \in BOOLEAN
    /\ \A h \in Handles :
          /\ handle[h].st \in {"none", "failed", "alive", "dropped"}
          /\ handle[h].disables \in 0..(MaxLeaves + 1)
          /\ handle[h].leaves \in 0..MaxLeaves
          /\ handle[h].command \in {"none", "ansi", "winapi"}
    /\ last.result \in {"Ok", "Err", "Unit"}
    /\ last.emitted \in {<<>>, csi(ENTER_SEQ), csi(LEAVE_SEQ)}

\* ----------------------------------------------------------------- claims
\* The bytes of the two control sequences, written out.
EscEnter == <<27, 91, 63, 49, 48, 52, 57, 104>>
EscLeave == <<27, 91, 63, 49, 48, 52, 57, 108>>

\* C1: when to_alternate_screen(raw_mode = true) switched the buffer and then
\* failed to enable raw mode, the terminal is back on the main screen, in the
\* line discipline it had, when the error is returned.
C1_RevertedWhenRawModeFails ==
    (/\ last.op = "to_alternate_screen"
     /\ last.raw_mode
     /\ last.writeOk
     /\ last.rawTried
     /\ last.result = "Err"
     /\ last.backend = "ansi"
     /\ last.preBuffer = "Main")
    => (buffer = "Main" /\ raw = last.preRaw)

\* C2: the end of a handle's scope runs the teardown, and the teardown issues
\* the revert: a drop makes one call of command.disable, and when its write
\* succeeds the terminal shows the main screen (the escape-sequence command
\* having written the leave sequence); no handle is dropped without a revert
\* having been issued for it.
C2_DropIssuesRevert ==
    /\ last.op = "drop" =>
          /\ last.reverts = 1
          /\ handle[last.h].st = "dropped"
          /\ last.writeOk => buffer = "Main"
          /\ (last.writeOk /\ last.backend = "ansi") =>
                last.emitted = EscLeave
    /\ \A h \in Handles : handle[h].st = "dropped" => handle[h].disables >= 1

\* C2 witness: a handle obtained from to_alternate_screen is dropped after an
\* explicit to_main_screen on it failed, and the drop restored the main screen.
C2_Witness ==
    /\ last.op = "drop"
    /\ handle[last.h].entered
    /\ prev.op = "to_main_screen"
    /\ prev.h = last.h
    /\ prev.result = "Err"
    /\ last.preBuffer = "Alternate"
    /\ buffer = "Main"

\* C3: a successful to_alternate_screen directly followed by a successful
\* to_main_screen on the handle it returned leaves the terminal in the buffer
\* and the line discipline it had before to_alternate_screen.
C3_RoundTrip ==
    (/\ last.op = "to_main_screen"
     /\ last.result = "Ok"
     /\ prev.op = "to_alternate_screen"
     /\ prev.result = "Ok"
     /\ prev.backend = "ansi"
     /\ prev.h = last.h)
    => (buffer = prev.preBuffer /\ raw = prev.preRaw)

\* C4: after a handle obtained with raw_mode = true is dropped without an
\* explicit leave, the terminal is not on the main screen in raw mode.
C4_NoMainScreenInRawMode ==
    (/\ last.op = "drop"
     /\ handle[last.h].entered
     /\ handle[last.h].raw_mode
     /\ handle[last.h].command = "ansi"
     /\ handle[last.h].leaves = 0)
    => ~(buffer = "Main" /\ raw)

\* C5: when the write of the buffer switch fails, to_alternate_screen returns
\* the error, makes no handle, does not try raw mode, changes nothing on the
\* terminal, and no revert is ever issued for the failed call.
C5_FailedEnableMakesNoHandle ==
    /\ (last.op = "to_alternate_screen" /\ ~last.writeOk) =>
          /\ last.result = "Err"
          /\ handle[last.h].st = "failed"
          /\ ~handle[last.h].entered
          /\ ~last.rawTried
          /\ last.emitted = <<>>
          /\ buffer = last.preBuffer
          /\ raw = last.preRaw
    /\ \A h \in Handles : handle[h].st = "failed" => handle[h].disables = 0

\* C5 witness: an enter whose write failed with raw_mode = true, and calls on
\* another handle made after it.
C5_Witness ==
    /\ \E h \in Handles : handle[h].st = "failed" /\ handle[h].raw_mode
    /\ prev.op = "to_alternate_screen"
    /\ ~prev.writeOk
    /\ prev.raw_mode
    /\ last.op = "drop"

\* C6 as stated: to_main_screen on a handle for which no enter was applied
\* (here one holding the escape-sequence command) returns success and writes
\* no bytes.
C6_LeaveWithoutEnterIsSilent ==
    (/\ last.op = "to_main_screen"
     /\ ~handle[last.h].entered
     /\ handle[last.h].command = "ansi")
    => (last.result = "Ok" /\ last.emitted = <<>>)

\* C6 amended: to_main_screen on a handle for which no enter was applied, and
\* which holds the escape-sequence command, makes the leave write all the same: when the write succeeds it returns success
\* and the stream receives exactly ESC[?1049l, which keeps a terminal that is
\* on the main screen on the main screen; when the write fails it returns the
\* error and nothing is written.  The line discipline is not touched.
C6_LeaveWithoutEnterWritesLeave ==
    (/\ last.op = "to_main_screen"
     /\ ~handle[last.h].entered
     /\ handle[last.h].command = "ansi")
    => /\ last.writeOk => (last.result = "Ok" /\ last.emitted = EscLeave)
       /\ ~last.writeOk => (last.result = "Err" /\ last.emitted = <<>>)
       /\ last.preBuffer = "Main" => buffer = "Main"
       /\ raw = last.preRaw

\* C6 witness: a successful leave on a handle built with new, on a terminal
\* that was on the main screen.
C6_Witness ==
    /\ last.op = "to_main_screen"
    /\ ~handle[last.h].entered
    /\ last.writeOk
    /\ last.preBuffer = "Main"
    /\ last.emitted = EscLeave

\* C7: two successful to_main_screen calls in a row on one handle: the second
\* leaves the terminal in the buffer and line discipline the first left it
\* in, writes nothing or the same leave sequence again, and returns the same
\* success.
C7_LeaveTwiceIsLeaveOnce ==
    (/\ last.op = "to_main_screen"
     /\ prev.op = "to_main_screen"
     /\ prev.h = last.h
     /\ prev.writeOk
     /\ last.writeOk)
    => /\ buffer = last.preBuffer
       /\ raw = last.preRaw
       /\ buffer = "Main"
       /\ last.emitted = <<>> \/ last.emitted = prev.emitted
       /\ last.result = "Ok"
       /\ prev.result = "Ok"

\* C7 witness: the handle was entered from the main screen, left, left again.
C7_Witness ==
    /\ last.op = "to_main_screen"
    /\ prev.op = "to_main_screen"
    /\ prev.h = last.h
    /\ prev.writeOk
    /\ last.writeOk
    /\ handle[last.h].entered
    /\ prev.preBuffer = "Alternate"
    /\ buffer = "Main"

\* C8 as stated: when to_main_screen was called on a handle before it is
\* dropped, the drop issues no further revert.
C8_DropSkipsAfterExplicitLeave ==
    (/\ last.op = "drop"
     /\ handle[last.h].command = "ansi"
     /\ handle[last.h].leaves >= 1) => last.reverts = 0

\* C8 amended: the teardown invokes the leave operation whether or not it was
\* invoked explicitly before: a drop always issues one revert, so a handle on
\* which to_main_screen was called k times has had command.disable called k
\* times while it lives and k + 1 times once it is dropped.
C8_DropAlwaysReverts ==
    /\ last.op = "drop" => last.reverts = 1
    /\ \A h \in Handles :
          /\ handle[h].st = "alive" => handle[h].disables = handle[h].leaves
          /\ handle[h].st = "dropped" =>
                handle[h].disables = handle[h].leaves + 1

\* C8 witness: a handle that was entered, left explicitly once with success,
\* and then dropped; the drop wrote the leave sequence again.
C8_Witness ==
    /\ last.op = "drop"
    /\ handle[last.h].entered
    /\ handle[last.h].leaves = 1
    /\ handle[last.h].disables = 2
    /\ prev.op = "to_main_screen"
    /\ prev.h = last.h
    /\ prev.result = "Ok"
    /\ last.emitted = EscLeave

\* C9: a drop completes normally and makes exactly one revert attempt whether
\* the revert succeeds or fails; an explicit to_main_screen returns the
\* revert's error to its caller.
C9_DropSwallowsToMainScreenReturns ==
    /\ last.op = "drop" =>
          /\ last.result = "Unit"
          /\ handle[last.h].st = "dropped"
          /\ last.reverts = 1
    /\ last.op = "to_main_screen" =>
          /\ last.result = (IF last.writeOk THEN "Ok" ELSE "Err")
          /\ last.reverts = 1

\* C9 witness: a drop whose revert failed, after an explicit leave that
\* returned the error.
C9_Witness ==
    /\ last.op = "drop"
    /\ ~last.writeOk
    /\ last.emitted = <<>>
    /\ handle[last.h].st = "dropped"
    /\ prev.op = "to_main_screen"
    /\ prev.result = "Err"

\* C10: with the escape-sequence backend, a successful enter writes exactly
\* ESC[?1049h and a successful leave writes exactly ESC[?1049l; an enter never writes the
\* leave sequence and a leave never writes the enter sequence.
C10_ExactSequences ==
    /\ (/\ last.op = "to_alternate_screen"
        /\ last.backend = "ansi"
        /\ last.result = "Ok") =>
          last.emitted = <<27, 91, 63, 49, 48, 52, 57, 104>>
    /\ (/\ last.op = "to_main_screen"
        /\ last.backend = "ansi"
        /\ last.result = "Ok") =>
          last.emitted = <<27, 91, 63, 49, 48, 52, 57, 108>>
    /\ last.op = "to_alternate_screen" => last.emitted \in {<<>>, EscEnter}
    /\ last.op \in {"to_main_screen", "drop"} =>
          last.emitted \in {<<>>, EscLeave}

\* C10 witness: enter with raw_mode = false, then leave, both successful.
C10_Witness ==
    /\ prev.op = "to_alternate_screen"
    /\ ~prev.raw_mode
    /\ prev.result = "Ok"
    /\ prev.emitted = EscEnter
    /\ last.op = "to_main_screen"
    /\ last.h = prev.h
    /\ last.result = "Ok"
    /\ last.emitted = EscLeave

\* A call that asks for the buffer the terminal is already in.
RedundantEnter == last.op = "to_alternate_screen" /\ last.preBuffer = "Alternate"
RedundantLeave == last.op = "to_main_screen" /\ last.preBuffer = "Main"

\* A handle that was successfully entered, is not dropped and has not had
\* to_main_screen called on it.
Active(h) ==
    /\ handle[h].st = "alive"
    /\ handle[h].entered
    /\ handle[h].leaves = 0

\* C11: when the escape-sequence enter or leave reports success, its sequence
\* has been written and flushed: none of its bytes is still in the buffer of
\* standard output when the call returns.
C11_FlushedOnSuccess ==
    (/\ last.op \in {"to_alternate_screen", "to_main_screen"}
     /\ last.backend = "ansi"
     /\ last.returned)
    => (last.emitted # <<>> /\ last.unflushed = 0)

\* C12: the revert of a handle is issued by the command that performed its
\* apply: the command resolved at entry is the one the handle holds, every
\* leave and drop of the handle goes through that backend, and a handle whose
\* apply was native writes no escape sequence on its revert (and the reverse).
C12_RevertBySameCommand ==
    /\ \A h \in Handles :
          handle[h].entered => handle[h].command = handle[h].appliedBy
    /\ (last.op \in {"to_main_screen", "drop"} /\ handle[last.h].entered) =>
          /\ last.backend = handle[last.h].appliedBy
          /\ handle[last.h].appliedBy = "winapi" => last.emitted = <<>>
          /\ (handle[last.h].appliedBy = "ansi" /\ last.writeOk) =>
                last.emitted = EscLeave

\* C12 witness: a handle entered through the native command is left through
\* the native command right after another handle was entered through the
\* escape-sequence command (a resolution at that time gives the other one).
C12_Witness ==
    /\ last.op = "to_main_screen"
    /\ handle[last.h].entered
    /\ handle[last.h].appliedBy = "winapi"
    /\ last.backend = "winapi"
    /\ last.result = "Ok"
    /\ prev.op = "to_alternate_screen"
    /\ prev.h # last.h
    /\ prev.backend = "ansi"
    /\ prev.result = "Ok"

\* C13 as stated: an enter while the terminal is on the alternate screen, or a
\* leave while it is on the main screen, is a no-op (nothing written, state
\* unchanged) or returns an error.
C13_RedundantSwitchIsNoOpOrError ==
    ((RedundantEnter \/ RedundantLeave) /\ last.backend = "ansi")
    => \/ last.result = "Err"
       \/ (last.emitted = <<>> /\ buffer = last.preBuffer /\ raw = last.preRaw)

\* C13 amended: in both directions the call is not recognised as redundant:
\* with the escape-sequence command and a successful write it writes its
\* sequence again, reports no error for it (an enter can still fail on raw
\* mode), and the terminal stays in the buffer it was in.
C13_RedundantSwitchRepeatsSequence ==
    /\ (RedundantEnter /\ last.backend = "ansi" /\ last.writeOk) =>
          /\ last.emitted = EscEnter
          /\ buffer = "Alternate"
          /\ last.result = "Ok" \/ last.rawTried
    /\ (RedundantLeave /\ last.backend = "ansi" /\ last.writeOk) =>
          /\ last.emitted = EscLeave
          /\ buffer = "Main"
          /\ last.result = "Ok"
          /\ raw = last.preRaw

\* C13 witness: a second leave on the main screen, after an enter made while
\* the terminal was on the alternate screen.
C13_Witness ==
    /\ RedundantLeave
    /\ last.backend = "ansi"
    /\ last.result = "Ok"
    /\ last.emitted = EscLeave
    /\ \E h \in Handles : h # last.h /\ handle[h].entered
    /\ buffer = "Main"

\* C14: to_alternate_screen with raw_mode = false and to_main_screen leave the
\* line discipline alone, and on the buffer axis a successful enter selects
\* the alternate buffer and a successful leave selects the main buffer.
C14_BufferAxisOnly ==
    /\ (last.op = "to_alternate_screen" /\ ~last.raw_mode) =>
          (raw = last.preRaw /\ ~last.rawTried)
    /\ last.op = "to_main_screen" => raw = last.preRaw
    /\ (last.op = "to_alternate_screen" /\ last.result = "Ok") =>
          buffer = "Alternate"
    /\ (last.op = "to_main_screen" /\ last.result = "Ok") => buffer = "Main"

\* C14 witness: on a terminal in raw mode, an enter with raw_mode = false
\* and the leave of that handle: back on the main screen, still raw.
C14_Witness ==
    /\ last.op = "to_main_screen"
    /\ last.result = "Ok"
    /\ prev.op = "to_alternate_screen"
    /\ prev.h = last.h
    /\ ~prev.raw_mode
    /\ prev.preRaw
    /\ prev.result = "Ok"
    /\ raw
    /\ buffer = "Main"

\* C15: from Main/Cooked, once every handle that was made has been dropped
\* and every revert succeeded, the terminal is in Main/Cooked.
C15_CleanExitIsMainCooked ==
    (/\ \A h \in Handles :
           /\ handle[h].st \in {"none", "dropped"}
           /\ ~handle[h].revertFailed
           /\ handle[h].command \in {"none", "ansi"}
     /\ \E h \in Handles : handle[h].st = "dropped" /\ handle[h].entered)
    => (buffer = "Main" /\ ~raw)

\* C16: on entry the buffer switch comes first: the calls made are enable
\* alone, or enable and then into_raw_mode; into_raw_mode is called exactly
\* when raw_mode is true and enable succeeded, and the line discipline changes
\* only if it was called.
C16_BufferSwitchBeforeRawMode ==
    last.op = "to_alternate_screen" =>
        /\ last.calls \in {<<"enable">>, <<"enable", "into_raw_mode">>}
        /\ last.rawTried <=> (last.raw_mode /\ last.returned)
        /\ last.rawTried <=> (last.calls = <<"enable", "into_raw_mode">>)
        /\ raw # last.preRaw => last.rawTried

\* C16 witness: an enter with raw_mode = true that switched the buffer and
\* then the line discipline.
C16_Witness ==
    /\ last.op = "to_alternate_screen"
    /\ last.raw_mode
    /\ last.calls = <<"enable", "into_raw_mode">>
    /\ ~last.preRaw
    /\ raw
    /\ buffer = "Alternate"

\* C17 as stated: whenever some handle is entered, not dropped and not left,
\* the terminal shows the alternate buffer (two handles alive at once
\* included).
C17_ActiveHandleShowsAlternateAlways ==
    (\E h \in Handles : Active(h)) => buffer = "Alternate"

\* C17 amended: in runs where at most one handle is alive at a time, whenever
\* some handle is entered, not dropped and not left, the terminal shows the
\* alternate buffer.
C17_ActiveHandleShowsAlternate ==
    (~nested /\ \E h \in Handles : Active(h)) => buffer = "Alternate"

\* C17 witness: one handle was entered and dropped, then another was entered
\* and is still active.
C17_Witness ==
    /\ ~nested
    /\ \E g, h \in Handles :
          /\ handle[g].st = "dropped"
          /\ handle[g].entered
          /\ Active(h)
    /\ buffer = "Alternate"

\* C18: execute and undo of the escape-sequence command make one write of
\* their own sequence and return true exactly when it succeeded; a failed
\* write yields false, writes nothing and does not write the other sequence.
C18_OneWriteResultAsValue ==
    (last.op \in {"to_alternate_screen", "to_main_screen", "drop"}
        /\ last.backend = "ansi")
    => /\ last.writes = 1
       /\ last.returned \in BOOLEAN
       /\ last.returned <=> last.writeOk
       /\ ~last.writeOk => last.emitted = <<>>
       /\ last.op = "to_alternate_screen" => last.emitted \in {<<>>, EscEnter}
       /\ last.op # "to_alternate_screen" => last.emitted \in {<<>>, EscLeave}

\* C18 witness: undo's write failed after execute's write had succeeded.
C18_Witness ==
    /\ last.op = "to_main_screen"
    /\ last.backend = "ansi"
    /\ ~last.writeOk
    /\ ~last.returned
    /\ last.writes = 1
    /\ last.emitted = <<>>
    /\ prev.op = "to_alternate_screen"
    /\ prev.h = last.h
    /\ prev.returned
    /\ prev.emitted = EscEnter

====
